---- MODULE Spec2Model ----
(***************************************************************************)
(* A model of parse_cutadapt_adapters.py: the segmentation of a cutadapt   *)
(* log into sample blocks, the extraction of adapter records, their        *)
(* aggregation into table rows, and the command-line entry point.          *)
(*                                                                         *)
(* The log text is a sequence of lines.  Every pattern of the program is   *)
(* matched with re.DOTALL, so a line break is an ordinary character and a  *)
(* match is decided by the order in which the literal anchors occur; the   *)
(* lines below are the anchors, one per line, each in the form cutadapt    *)
(* prints it.  Strings the program computes on (the captured adapter       *)
(* sequence, the captured count) are sequences of code points, so that     *)
(* strip(), int() and the ordering of sorted() are computed, not assumed.  *)
(*                                                                         *)
(* What the lines leave out: a line holds one anchor ("Command line        *)
(* parameters:" lines may also hold a RAT token, after the anchor), every  *)
(* "Sequence:" field has its ';' on its own line, and the adapter number   *)
(* of a header, which the program discards, follows the read.  The history *)
(* variable emitted records how many rows each loop iteration appended.    *)
(***************************************************************************)
EXTENDS Integers, Sequences, FiniteSets, TLC

VARIABLES
    argc,           \* len(sys.argv)
    file,           \* the contents of the log file named on the command line
    pc,             \* the position of main() / parse_cutadapt_adapters()
    full_log_text,  \* the argument of parse_cutadapt_adapters
    sample_blocks,  \* re.findall(sample_split_regex, ...)
    bi,             \* the position of "for block in sample_blocks" (1-based)
    rows,           \* the list of row dicts
    emitted,        \* history: the number of rows each loop iteration appended
    df,             \* the DataFrame: [columns, data]
    stdout,         \* what main() printed: <<>> or <<csv>>
    stderr,         \* <<>> or <<usage message>>
    exit_code       \* -1 while running, then the process's exit status

vars == <<argc, file, pc, full_log_text, sample_blocks, bi, rows, emitted,
          df, stdout, stderr, exit_code>>

-----------------------------------------------------------------------------
(* Bounds of the model. *)

\* The longest log file, in lines, of the free-form specification Spec.
MaxLines == 4
\* The longest log file, in chunks (a line or a whole adapter section), of
\* the specification SpecSections.
MaxChunks == 4

-----------------------------------------------------------------------------
(* Text. *)

\* The characters str.strip() removes, among those used here: tab, line
\* feed, carriage return, space.
Whitespace == {9, 10, 13, 32}

\* The literal "TOTAL" of the summary row, as code points.
TOTAL == <<84, 79, 84, 65, 76>>

\* A line of the log.
\*   k = "clp"  : Command line parameters: ... [RAT<digits> ...]
\*                (rat = the RAT token of the line, or "" when it has none)
\*   k = "note" : any other line that mentions a RAT token
\*   k = "hdr"  : === First|Second read: Adapter <raw> ===
\*   k = "seq"  : Sequence:<raw>; Type: ...    (raw: the code points up to ';')
\*   k = "trim" : Trimmed: <raw> times         (raw: the digits, each 0..9)
Line(k, rat, read, raw) == [k |-> k, rat |-> rat, read |-> read, raw |-> raw]

Clp(rat)   == Line("clp", rat, "", <<>>)
Note(rat)  == Line("note", rat, "", <<>>)
Hdr(read)  == Line("hdr", "", read, IF read = "First" THEN <<1>> ELSE <<2>>)
SeqLn(raw) == Line("seq", "", "", raw)
Trim(raw)  == Line("trim", "", "", raw)

-----------------------------------------------------------------------------
(* The patterns. *)

\* "Command line parameters:" occurs in the line.
HasClp(l) == l.k = "clp"
\* RAT\d+ occurs in the line (after the line's "Command line parameters:",
\* when it has both).
HasRat(l) == l.rat # ""

IsHdr(l)  == l.k = "hdr"
\* "Sequence:\s*([^;]+);" matches at the line: the text before the ';' is
\* not empty.
SeqMatches(l) == l.k = "seq" /\ l.raw # <<>>
IsTrim(l) == l.k = "trim"

\* The anchor named "what" occurs in the line.
LineHas(what, l) ==
    CASE what = "clp"  -> HasClp(l)
      [] what = "rat"  -> HasRat(l)
      [] what = "hdr"  -> IsHdr(l)
      [] what = "seq"  -> SeqMatches(l)
      [] what = "trim" -> IsTrim(l)

\* The first position i >= from of t whose line has the anchor, or 0: where
\* a lazy ".*?" followed by the anchor stops.
FirstIdx(t, from, what) ==
    IF \E i \in from..Len(t) : LineHas(what, t[i])
    THEN CHOOSE i \in from..Len(t) :
             LineHas(what, t[i]) /\ \A j \in from..(i - 1) : ~LineHas(what, t[j])
    ELSE 0

\* A faulty split, for comparison: the pattern without its RAT\d+ part,
\*   (Command line parameters:.*?)(?=Command line parameters:|$)
\* which cuts at every "Command line parameters:".
RECURSIVE BlocksFromEveryClp(_, _)
BlocksFromEveryClp(t, p) ==
    LET i == FirstIdx(t, p, "clp") IN
    IF i = 0 THEN <<>>
    ELSE LET k == FirstIdx(t, i + 1, "clp")
             e == IF k = 0 THEN Len(t) ELSE k - 1
         IN  <<SubSeq(t, i, e)>> \o (IF k = 0 THEN <<>> ELSE BlocksFromEveryClp(t, k))

\* re.findall(sample_split_regex, text, flags=re.DOTALL) from position p:
\*   (Command line parameters:.*?RAT\d+.*?)(?=Command line parameters:|$)
\* The match starts at the first "Command line parameters:", runs lazily to
\* the first RAT token after it (whatever lies between), and then lazily to
\* the next "Command line parameters:" or the end of the text.
RECURSIVE BlocksFrom(_, _)
BlocksFrom(t, p) ==
    LET i == FirstIdx(t, p, "clp") IN
    IF i = 0 THEN <<>>
    ELSE LET j == FirstIdx(t, i, "rat") IN
         IF j = 0 THEN <<>>
         ELSE LET k == FirstIdx(t, j + 1, "clp")
                  e == IF k = 0 THEN Len(t) ELSE k - 1
              IN  <<SubSeq(t, i, e)>> \o (IF k = 0 THEN <<>> ELSE BlocksFrom(t, k))

FindBlocks(t) == BlocksFrom(t, 1)

\* sample_name_regex.search(block): group(1) of the first RAT\d+ of the
\* block, or "" for None.
SampleNameSearch(block) ==
    LET j == FirstIdx(block, 1, "rat") IN
    IF j = 0 THEN "" ELSE block[j].rat

RECURSIVE DropLeading(_)
DropLeading(s) ==
    IF s # <<>> /\ Head(s) \in Whitespace THEN DropLeading(Tail(s)) ELSE s

RECURSIVE DropTrailing(_)
DropTrailing(s) ==
    IF s # <<>> /\ s[Len(s)] \in Whitespace
    THEN DropTrailing(SubSeq(s, 1, Len(s) - 1)) ELSE s

\* group(3) of "Sequence:\s*([^;]+);" on a line with text raw before the
\* ';': \s* takes the leading whitespace, and gives one character back when
\* nothing else is left for [^;]+.
SeqGroup(raw) ==
    LET rest == DropLeading(raw) IN
    IF rest = <<>> THEN <<raw[Len(raw)]>> ELSE rest

\* str.strip()
Strip(s) == DropTrailing(DropLeading(s))

\* int() of a string of digits
RECURSIVE ParseInt(_)
ParseInt(ds) ==
    IF ds = <<>> THEN 0 ELSE 10 * ParseInt(SubSeq(ds, 1, Len(ds) - 1)) + ds[Len(ds)]

\* re.findall(adapter_block_regex, block) from position p: the next header,
\* lazily the first "Sequence: ...;" after it, lazily the first
\* "Trimmed: n times" after that; the scan resumes after the match.  Each
\* match is the tuple of the four groups.
RECURSIVE AdaptersFrom(_, _)
AdaptersFrom(b, p) ==
    LET h == FirstIdx(b, p, "hdr") IN
    IF h = 0 THEN <<>>
    ELSE LET s == FirstIdx(b, h + 1, "seq") IN
         IF s = 0 THEN <<>>
         ELSE LET t == FirstIdx(b, s + 1, "trim") IN
              IF t = 0 THEN <<>>
              ELSE <<(<<b[h].read, b[h].raw, SeqGroup(b[s].raw), b[t].raw>>)>>
                   \o AdaptersFrom(b, t + 1)

FindAdapters(block) == AdaptersFrom(block, 1)

-----------------------------------------------------------------------------
(* Aggregation. *)

\* str.lower() on the two values group(1) can take.
Lower(s) == IF s = "First" THEN "first" ELSE IF s = "Second" THEN "second" ELSE s

\* A faulty iteration, for comparison: "=" where the program has "+=".
AddRecordAssign(adapter_data, match) ==
    LET which_read    == match[1]
        adapter_seq   == Strip(match[3])
        trimmed_count == ParseInt(match[4])
        d == IF adapter_seq \in DOMAIN adapter_data
             THEN adapter_data
             ELSE adapter_data @@ (adapter_seq :> [read1 |-> 0, read2 |-> 0])
    IN  IF Lower(which_read) = "first"
        THEN [d EXCEPT ![adapter_seq].read1 = trimmed_count]
        ELSE [d EXCEPT ![adapter_seq].read2 = trimmed_count]

\* One iteration of "for match in re.findall(adapter_block_regex, block)".
AddRecord(adapter_data, match) ==
    LET which_read    == match[1]
        adapter_seq   == Strip(match[3])
        trimmed_count == ParseInt(match[4])
        d == IF adapter_seq \in DOMAIN adapter_data
             THEN adapter_data
             ELSE adapter_data @@ (adapter_seq :> [read1 |-> 0, read2 |-> 0])
    IN  IF Lower(which_read) = "first"
        THEN [d EXCEPT ![adapter_seq].read1 = @ + trimmed_count]
        ELSE [d EXCEPT ![adapter_seq].read2 = @ + trimmed_count]

\* The whole loop over the matches, in the order findall returns them.
RECURSIVE Accumulate(_, _)
Accumulate(adapter_data, matches) ==
    IF matches = <<>> THEN adapter_data
    ELSE Accumulate(AddRecord(adapter_data, Head(matches)), Tail(matches))

\* The empty dict.
EmptyDict == [x \in {} |-> 0]

\* Python's order on str: by code point, a proper prefix first.
LexLess(a, b) ==
    \E i \in 1..(Len(a) + 1) :
        /\ i <= Len(b)
        /\ \A j \in 1..(i - 1) : a[j] = b[j]
        /\ (i = Len(a) + 1 \/ a[i] < b[i])

\* A faulty order, for comparison: sorted(keys, reverse=True).
RECURSIVE SortedDescending(_)
SortedDescending(keys) ==
    IF keys = {} THEN <<>>
    ELSE LET m == CHOOSE x \in keys : \A y \in keys : x = y \/ LexLess(y, x)
         IN  <<m>> \o SortedDescending(keys \ {m})

\* sorted(keys)
RECURSIVE Sorted(_)
Sorted(keys) ==
    IF keys = {} THEN <<>>
    ELSE LET m == CHOOSE x \in keys : \A y \in keys : x = y \/ LexLess(x, y)
         IN  <<m>> \o Sorted(keys \ {m})

ColumnNames ==
    <<"Sample Name", "Adapter Sequence", "Trimmed (Read 1)", "Trimmed (Read 2)",
      "Total Trimmed">>

\* A faulty row, for comparison: "Total Trimmed" without the second read.
RowTotalOfReadOne(sample_name, seq, r1, r2) ==
    ("Sample Name" :> sample_name) @@ ("Adapter Sequence" :> seq) @@
    ("Trimmed (Read 1)" :> r1) @@ ("Trimmed (Read 2)" :> r2) @@
    ("Total Trimmed" :> r1)

\* The dict literal of a row.
Row(sample_name, seq, r1, r2) ==
    ("Sample Name" :> sample_name) @@ ("Adapter Sequence" :> seq) @@
    ("Trimmed (Read 1)" :> r1) @@ ("Trimmed (Read 2)" :> r2) @@
    ("Total Trimmed" :> r1 + r2)

\* "for seq in sorted_sequences": the rows appended.
AdapterRows(sample_name, adapter_data, sorted_sequences) ==
    [i \in 1..Len(sorted_sequences) |->
        Row(sample_name, sorted_sequences[i],
            adapter_data[sorted_sequences[i]].read1,
            adapter_data[sorted_sequences[i]].read2)]

\* Faulty totals, for comparison: "total_read1 = r1" where the program has
\* "+=", which leaves the last row's count.
SumColumnLast(rs, col) ==
    IF rs = <<>> THEN 0 ELSE rs[Len(rs)][col]

\* total_read1 / total_read2 after the loop: the running sums.
RECURSIVE SumColumn(_, _)
SumColumn(rs, col) ==
    IF rs = <<>> THEN 0 ELSE rs[1][col] + SumColumn(Tail(rs), col)

\* A faulty summary, for comparison: the "Total" line without its
\* "if sorted_sequences" guard.
TotalRowsAlways(sample_name, adapter_rows) ==
    <<Row(sample_name, TOTAL,
          SumColumn(adapter_rows, "Trimmed (Read 1)"),
          SumColumn(adapter_rows, "Trimmed (Read 2)"))>>

\* 'Add a "Total" line if we found any adapters'.
TotalRows(sample_name, adapter_rows) ==
    IF adapter_rows # <<>>
    THEN <<Row(sample_name, TOTAL,
               SumColumn(adapter_rows, "Trimmed (Read 1)"),
               SumColumn(adapter_rows, "Trimmed (Read 2)"))>>
    ELSE <<>>

\* The body of "for block in sample_blocks": the rows it appends.
BlockRows(block) ==
    LET sample_name == SampleNameSearch(block) IN
    IF sample_name = "" THEN <<>>
    ELSE LET adapter_data     == Accumulate(EmptyDict, FindAdapters(block))
             sorted_sequences == Sorted(DOMAIN adapter_data)
             adapter_rows     == AdapterRows(sample_name, adapter_data, sorted_sequences)
         IN  adapter_rows \o TotalRows(sample_name, adapter_rows)

\* The rows parse_cutadapt_adapters builds for a list of blocks.
RECURSIVE RowsOfBlocks(_)
RowsOfBlocks(blocks) ==
    IF blocks = <<>> THEN <<>>
    ELSE BlockRows(Head(blocks)) \o RowsOfBlocks(Tail(blocks))

\* The rows of parse_cutadapt_adapters(text).
ParseRows(text) == RowsOfBlocks(FindBlocks(text))

\* pd.DataFrame(rows): the columns are the keys of the row dicts, in the
\* order of the dict literal; a DataFrame of no rows has no columns.
DataFrame(rs) == [columns |-> IF rs = <<>> THEN <<>> ELSE ColumnNames, data |-> rs]

\* df.to_csv(index=False): the header record, then one record per row.
ToCsv(d) ==
    [header  |-> d.columns,
     records |-> [i \in 1..Len(d.data) |->
                    [c \in 1..Len(d.columns) |-> d.data[i][d.columns[c]]]]]

-----------------------------------------------------------------------------
(* The inputs. *)

\* The lines of the free-form logs: every kind of line, in any order.
LineSet ==
    {Clp("RAT1"), Clp("RAT2"), Clp(""), Note("RAT2"),
     Hdr("First"), Hdr("Second"),
     SeqLn(<<32, 65>>), SeqLn(<<32, 67, 32>>), SeqLn(<<>>),
     Trim(<<1>>), Trim(<<1, 0>>)}

\* A well-formed adapter section, as cutadapt prints it.
Section(read, raw, digits) == <<Hdr(read), SeqLn(raw), Trim(digits)>>

\* The sections of the sectioned logs: " A" trimmed "1" times, " A " (the
\* same sequence, with a trailing blank) "2" times, " C" "10" times, and
\* " TOTAL" (a sequence that spells the summary row's label) "03" times, each
\* for either read.
SectionSet ==
    {Section(r, x[1], x[2]) :
        r \in {"First", "Second"},
        x \in {<< <<32, 65>>, <<1>> >>, << <<32, 65, 32>>, <<2>> >>,
               << <<32, 67>>, <<1, 0>> >>, << <<32, 84, 79, 84, 65, 76>>, <<0, 3>> >>}}

\* A section whose "Sequence:" field is missing.
NoSequenceSection == <<Hdr("First"), Trim(<<1>>)>>

\* The chunks of the sectioned logs: a "Command line parameters:" line, with
\* or without a sample token, a whole section, or the section without its
\* "Sequence:" field.
ChunkSet ==
    {<<Clp("RAT1")>>, <<Clp("RAT2")>>, <<Clp("")>>, NoSequenceSection} \cup SectionSet

SeqsUpTo(S, n) == UNION {[1..m -> S] : m \in 0..n}

RECURSIVE Flatten(_)
Flatten(cs) == IF cs = <<>> THEN <<>> ELSE Head(cs) \o Flatten(Tail(cs))

-----------------------------------------------------------------------------
(* main() and parse_cutadapt_adapters(). *)

NoFrame == [columns |-> <<>>, data |-> <<>>]

\* The process as it starts: with a log file named on the command line
\* (argc = 2), or without (argc = 1: there is no file to speak of).
Start(a, f) ==
    /\ argc = a
    /\ file = f
    /\ pc = "main"
    /\ full_log_text = <<>>
    /\ sample_blocks = <<>>
    /\ bi = 1
    /\ rows = <<>>
    /\ emitted = <<>>
    /\ df = NoFrame
    /\ stdout = <<>>
    /\ stderr = <<>>
    /\ exit_code = -1

Init ==
    \/ Start(1, <<>>)
    \/ \E f \in SeqsUpTo(LineSet, MaxLines) : Start(2, f)

InitSections ==
    \/ Start(1, <<>>)
    \/ \E cs \in SeqsUpTo(ChunkSet, MaxChunks) : Start(2, Flatten(cs))

\* main(): "if len(sys.argv) < 2": usage on stderr, sys.exit(1).
Usage ==
    /\ pc = "main"
    /\ argc < 2
    /\ stderr' = <<"Usage">>
    /\ exit_code' = 1
    /\ pc' = "exit"
    /\ UNCHANGED <<argc, file, full_log_text, sample_blocks, bi, rows, emitted,
                   df, stdout>>

\* main(): the file is read whole and handed to parse_cutadapt_adapters.
ReadLog ==
    /\ pc = "main"
    /\ argc >= 2
    /\ full_log_text' = file
    /\ pc' = "split"
    /\ UNCHANGED <<argc, file, sample_blocks, bi, rows, emitted, df, stdout,
                   stderr, exit_code>>

\* parse_cutadapt_adapters: the split into sample blocks; rows = [].
Split ==
    /\ pc = "split"
    /\ sample_blocks' = FindBlocks(full_log_text)
    /\ rows' = <<>>
    /\ bi' = 1
    /\ pc' = "loop"
    /\ UNCHANGED <<argc, file, full_log_text, emitted, df, stdout, stderr,
                   exit_code>>

\* One iteration of "for block in sample_blocks".
ProcessBlock ==
    /\ pc = "loop"
    /\ bi <= Len(sample_blocks)
    /\ rows' = rows \o BlockRows(sample_blocks[bi])
    /\ emitted' = Append(emitted, Len(rows') - Len(rows))
    /\ bi' = bi + 1
    /\ UNCHANGED <<argc, file, pc, full_log_text, sample_blocks, df, stdout,
                   stderr, exit_code>>

\* "return pd.DataFrame(rows)", and main()'s "df = ...".
Return ==
    /\ pc = "loop"
    /\ bi > Len(sample_blocks)
    /\ df' = DataFrame(rows)
    /\ pc' = "print"
    /\ UNCHANGED <<argc, file, full_log_text, sample_blocks, bi, rows, emitted,
                   stdout, stderr, exit_code>>

\* "print(df.to_csv(index=False))", and the process ends with status 0.
PrintCsv ==
    /\ pc = "print"
    /\ stdout' = <<ToCsv(df)>>
    /\ exit_code' = 0
    /\ pc' = "exit"
    /\ UNCHANGED <<argc, file, full_log_text, sample_blocks, bi, rows, emitted,
                   df, stderr>>

Next == Usage \/ ReadLog \/ Split \/ ProcessBlock \/ Return \/ PrintCsv

\* Free-form logs of up to MaxLines lines.
Spec == Init /\ [][Next]_vars

\* Logs of up to MaxChunks chunks, each a header line or a whole section.
SpecSections == InitSections /\ [][Next]_vars

-----------------------------------------------------------------------------
(* What the claims speak of. *)

RECURSIVE SumSeq(_)
SumSeq(s) == IF s = <<>> THEN 0 ELSE Head(s) + SumSeq(Tail(s))

\* parse_cutadapt_adapters has returned.
Returned == pc \in {"print", "exit"} /\ argc >= 2

\* The blocks are split (the loop is running, or over).
Splitted == pc \in {"loop", "print", "exit"}

\* The rows the i-th iteration of the loop appended.
Group(i) ==
    LET before == SumSeq(SubSeq(emitted, 1, i - 1))
    IN  SubSeq(rows, before + 1, before + emitted[i])

\* The AdapterRecords of a block: which_read, adapter_sequence,
\* trimmed_count of every match.
AdapterRecords(block) ==
    LET ms == FindAdapters(block)
    IN  [i \in 1..Len(ms) |->
            [which_read |-> ms[i][1], adapter_sequence |-> Strip(ms[i][3]),
             trimmed_count |-> ParseInt(ms[i][4])]]

\* The distinct adapter sequences recognized in a block.
RecognizedSequences(block) ==
    {AdapterRecords(block)[i].adapter_sequence : i \in 1..Len(FindAdapters(block))}

\* The cells of one column of some rows.
Column(rs, col) == [i \in 1..Len(rs) |-> rs[i][col]]

\* The line of the text at which the i-th block starts: the blocks lie
\* end to end from the first "Command line parameters:".
BlockStart(i) ==
    FirstIdx(full_log_text, 1, "clp")
        + SumSeq([m \in 1..(i - 1) |-> Len(sample_blocks[m])])

\* A "Command line parameters:" line with a RAT token.
IsSampleHeader(l) == l.k = "clp" /\ l.rat # ""

-----------------------------------------------------------------------------
(* C1 *)

\* C1, as stated: a log that forms a single sample block with N >= 1
\* distinct recognized adapter sequences gives exactly N per-adapter rows
\* plus exactly one row whose Adapter Sequence is "TOTAL", and that row's
\* Read 1 and Read 2 counts are the sums of those columns over the N rows.
C1_ExactlyOneTotalLabel ==
    (Returned /\ Len(sample_blocks) = 1
              /\ RecognizedSequences(sample_blocks[1]) # {}) =>
        LET n == Cardinality(RecognizedSequences(sample_blocks[1]))
            labelled == {i \in 1..Len(rows) : rows[i]["Adapter Sequence"] = TOTAL}
        IN  /\ Len(rows) = n + 1
            /\ Cardinality(labelled) = 1
            /\ \A t \in labelled :
                /\ rows[t]["Trimmed (Read 1)"] =
                     SumSeq(Column(SubSeq(rows, 1, n), "Trimmed (Read 1)"))
                /\ rows[t]["Trimmed (Read 2)"] =
                     SumSeq(Column(SubSeq(rows, 1, n), "Trimmed (Read 2)"))

\* C1, amended: such a log gives exactly N + 1 rows: N per-adapter rows, one
\* for each recognized sequence, followed by one summary row whose Adapter
\* Sequence is "TOTAL" and whose Read 1 and Read 2 counts are the sums of
\* those columns over the N rows; the summary row is the only row labelled
\* "TOTAL" unless a recognized adapter sequence is itself the text TOTAL.
C1_SingleBlockRows ==
    (Returned /\ Len(sample_blocks) = 1
              /\ RecognizedSequences(sample_blocks[1]) # {}) =>
        LET seqs == RecognizedSequences(sample_blocks[1])
            n    == Cardinality(seqs)
            per  == SubSeq(rows, 1, n)
        IN  /\ Len(rows) = n + 1
            /\ {per[i]["Adapter Sequence"] : i \in 1..n} = seqs
            /\ rows[n + 1]["Adapter Sequence"] = TOTAL
            /\ rows[n + 1]["Trimmed (Read 1)"] = SumSeq(Column(per, "Trimmed (Read 1)"))
            /\ rows[n + 1]["Trimmed (Read 2)"] = SumSeq(Column(per, "Trimmed (Read 2)"))
            /\ (TOTAL \notin seqs =>
                    \A i \in 1..n : rows[i]["Adapter Sequence"] # TOTAL)

\* A single block with two distinct sequences, trimmed from both reads, has
\* been parsed.
C1_Witness ==
    /\ Returned
    /\ Len(sample_blocks) = 1
    /\ Cardinality(RecognizedSequences(sample_blocks[1])) = 2
    /\ Len(rows) = 3
    /\ rows[3]["Trimmed (Read 1)"] > rows[1]["Trimmed (Read 1)"]
    /\ rows[3]["Trimmed (Read 2)"] > rows[2]["Trimmed (Read 2)"]

-----------------------------------------------------------------------------
(* C5 *)

\* C5, as stated: the entry point run on a log that gives no row exits with
\* status 0 and writes the header record with the five column names, and no
\* data record.
C5_HeaderOnlyCsv ==
    (pc = "exit" /\ argc >= 2 /\ rows = <<>>) =>
        /\ exit_code = 0
        /\ stdout = <<[header |-> ColumnNames, records |-> <<>>]>>

-----------------------------------------------------------------------------
(* C8 *)

\* C8: every row, per-adapter or TOTAL, has
\* Total Trimmed = Trimmed (Read 1) + Trimmed (Read 2).
C8_TotalIsSum ==
    \A i \in 1..Len(rows) :
        rows[i]["Total Trimmed"] =
            rows[i]["Trimmed (Read 1)"] + rows[i]["Trimmed (Read 2)"]

\* A per-adapter row and its TOTAL row, both with counts from both reads.
C8_Witness ==
    /\ Returned
    /\ \E i \in 1..Len(rows) :
        /\ rows[i]["Adapter Sequence"] # TOTAL
        /\ rows[i]["Trimmed (Read 1)"] > 0
        /\ rows[i]["Trimmed (Read 2)"] > 0
    /\ \E i \in 1..Len(rows) :
        /\ rows[i]["Adapter Sequence"] = TOTAL
        /\ rows[i]["Trimmed (Read 1)"] > 0
        /\ rows[i]["Trimmed (Read 2)"] > 0

-----------------------------------------------------------------------------
(* C10 *)

\* C10: every block of the split contains a RAT token, so the loop never
\* skips a block for want of a sample name; and the sample name of a block
\* is the first RAT token of the text after the "Command line parameters:"
\* that opens the block: that token lies inside the block.
C10_BlockHasItsSampleToken ==
    Splitted =>
        \A i \in 1..Len(sample_blocks) :
            LET b == sample_blocks[i]
                s == BlockStart(i)
                j == FirstIdx(full_log_text, s, "rat")
            IN  /\ b = SubSeq(full_log_text, s, s + Len(b) - 1)
                /\ HasClp(b[1])
                /\ SampleNameSearch(b) # ""
                /\ j # 0
                /\ j < s + Len(b)
                /\ SampleNameSearch(b) = full_log_text[j].rat

\* A block was split off whose opening line has no RAT token: its sample
\* token comes from a later line.
C10_Witness ==
    /\ Returned
    /\ \E i \in 1..Len(sample_blocks) :
        /\ ~HasRat(sample_blocks[i][1])
        /\ SampleNameSearch(sample_blocks[i]) = "RAT2"

-----------------------------------------------------------------------------
(* C2 *)

\* C2, as stated: a block runs from a RAT-bearing "Command line parameters:"
\* line up to the next RAT-bearing one, a "Command line parameters:" line
\* without a RAT token not ending it: every adapter section (a header, its
\* "Sequence: ...;" and its "Trimmed: n times") between two consecutive
\* RAT-bearing header lines p < q lies in a block of the split whose sample
\* name is the token of p, the earlier of the two.
C2_SectionUnderEarlierHeader ==
    Splitted =>
        \A x \in 1..Len(full_log_text) :
            (/\ IsHdr(full_log_text[x])
             /\ x + 2 <= Len(full_log_text)
             /\ SeqMatches(full_log_text[x + 1])
             /\ IsTrim(full_log_text[x + 2])
             /\ \E p \in 1..(x - 1) : IsSampleHeader(full_log_text[p])
             /\ \E q \in (x + 1)..Len(full_log_text) : IsSampleHeader(full_log_text[q])) =>
                LET p == CHOOSE p \in 1..(x - 1) :
                            /\ IsSampleHeader(full_log_text[p])
                            /\ \A r \in (p + 1)..(x - 1) : ~IsSampleHeader(full_log_text[r])
                IN  \E i \in 1..Len(sample_blocks) :
                        /\ BlockStart(i) <= x
                        /\ x < BlockStart(i) + Len(sample_blocks[i])
                        /\ SampleNameSearch(sample_blocks[i]) = full_log_text[p].rat

-----------------------------------------------------------------------------
(* C3 *)

\* The matches of a block taken section by section: a section runs from its
\* header to the next header; it gives a match when its own lines hold a
\* "Sequence: ...;" and, after it, a "Trimmed: n times", and nothing
\* otherwise.
RECURSIVE SectionMatchesFrom(_, _)
SectionMatchesFrom(b, p) ==
    LET h == FirstIdx(b, p, "hdr") IN
    IF h = 0 THEN <<>>
    ELSE LET nh == FirstIdx(b, h + 1, "hdr")
             e  == IF nh = 0 THEN Len(b) ELSE nh - 1
             s  == FirstIdx(b, h + 1, "seq")
             t  == IF s = 0 THEN 0 ELSE FirstIdx(b, s + 1, "trim")
         IN  (IF s # 0 /\ s <= e /\ t # 0 /\ t <= e
              THEN <<(<<b[h].read, b[h].raw, SeqGroup(b[s].raw), b[t].raw>>)>>
              ELSE <<>>)
             \o SectionMatchesFrom(b, e + 1)

\* C3, as stated: a section that lacks one of its three anchors gives no
\* record, its read is never combined with the Sequence or Trimmed value of
\* another section, and the well-formed sections give the records they
\* would give without it: the matches of every block are those of its
\* well-formed sections.
C3_MalformedSectionGivesNothing ==
    Splitted =>
        \A i \in 1..Len(sample_blocks) :
            FindAdapters(sample_blocks[i]) = SectionMatchesFrom(sample_blocks[i], 1)

-----------------------------------------------------------------------------
(* C4 *)

\* A self-contained sample block: a text that begins with a RAT-bearing
\* "Command line parameters:" line and holds no other one.
IsSampleBlockText(t) ==
    /\ t # <<>>
    /\ IsSampleHeader(t[1])
    /\ \A i \in 2..Len(t) : ~IsSampleHeader(t[i])

\* C4, as stated: when the text is a sample block A followed by a sample
\* block B, its rows are the rows of A alone followed by the rows of B
\* alone.
C4_ConcatenationOfBlocks ==
    Returned =>
        \A k \in 1..(Len(full_log_text) - 1) :
            LET A == SubSeq(full_log_text, 1, k)
                B == SubSeq(full_log_text, k + 1, Len(full_log_text))
            IN  (IsSampleBlockText(A) /\ IsSampleBlockText(B)) =>
                    rows = ParseRows(A) \o ParseRows(B)

\* C4 for blocks that hold no "Command line parameters:" line but their
\* first: for these the rows of the whole are the rows of A followed by the
\* rows of B.
C4_ConcatenationOfOneHeaderBlocks ==
    Returned =>
        \A k \in 1..(Len(full_log_text) - 1) :
            LET A == SubSeq(full_log_text, 1, k)
                B == SubSeq(full_log_text, k + 1, Len(full_log_text))
            IN  (/\ IsSampleBlockText(A) /\ IsSampleBlockText(B)
                 /\ \A i \in 2..Len(A) : ~HasClp(A[i])
                 /\ \A i \in 2..Len(B) : ~HasClp(B[i])) =>
                    rows = ParseRows(A) \o ParseRows(B)

-----------------------------------------------------------------------------
(* C6 *)

\* C6: the rows of each block are contiguous and the groups follow the order
\* of the blocks (the i-th group holds the rows of the i-th block, under
\* its sample name); within a group the per-adapter rows are in strictly
\* ascending order of Adapter Sequence and the TOTAL row is the last.
C6_GroupsInOrderSortedTotalLast ==
    Splitted =>
        /\ Len(emitted) = bi - 1
        /\ SumSeq(emitted) = Len(rows)
        /\ \A i \in 1..Len(emitted) :
            LET g == Group(i) IN
            /\ \A r \in 1..Len(g) :
                g[r]["Sample Name"] = SampleNameSearch(sample_blocks[i])
            /\ Len(g) > 0 => g[Len(g)]["Adapter Sequence"] = TOTAL
            /\ \A r \in 1..(Len(g) - 2) :
                LexLess(g[r]["Adapter Sequence"], g[r + 1]["Adapter Sequence"])

\* Two blocks of different samples have each given rows.
C6_Witness ==
    /\ Returned
    /\ Len(emitted) = 2
    /\ emitted[1] > 0
    /\ emitted[2] > 0
    /\ rows[1]["Sample Name"] # rows[Len(rows)]["Sample Name"]

-----------------------------------------------------------------------------
(* C7 *)

Orderings(n) ==
    {f \in [1..n -> 1..n] : \A a, b \in 1..n : a # b => f[a] # f[b]}

\* The sum of trimmed_count over the records of a sequence and a read.
RecordSum(recs, seq, read) ==
    SumSeq([m \in 1..Len(recs) |->
              IF recs[m].adapter_sequence = seq /\ recs[m].which_read = read
              THEN recs[m].trimmed_count ELSE 0])

\* C7: in every per-adapter row, Trimmed (Read 1) is the sum of
\* trimmed_count over the block's records of that sequence with which_read
\* "First", and Trimmed (Read 2) the sum over those with "Second"; and the
\* accumulated counts are the same in whatever order the block's records
\* are accumulated.
C7_CountsAreSumsInAnyOrder ==
    Splitted =>
        \A i \in 1..Len(emitted) :
            LET g    == Group(i)
                ms   == FindAdapters(sample_blocks[i])
                recs == AdapterRecords(sample_blocks[i])
            IN  /\ \A r \in 1..(Len(g) - 1) :
                    /\ g[r]["Trimmed (Read 1)"] =
                         RecordSum(recs, g[r]["Adapter Sequence"], "First")
                    /\ g[r]["Trimmed (Read 2)"] =
                         RecordSum(recs, g[r]["Adapter Sequence"], "Second")
                /\ \A f \in Orderings(Len(ms)) :
                    Accumulate(EmptyDict, [m \in 1..Len(ms) |-> ms[f[m]]])
                        = Accumulate(EmptyDict, ms)

\* A row that sums two First-read records (1 + 2) of one sequence and has a
\* Second-read count as well.
C7_Witness ==
    /\ Returned
    /\ \E i \in 1..Len(rows) :
        /\ rows[i]["Adapter Sequence"] # TOTAL
        /\ rows[i]["Trimmed (Read 1)"] = 3
        /\ rows[i]["Trimmed (Read 2)"] > 0

-----------------------------------------------------------------------------
(* C9 *)

\* C9: rows come only from blocks with a recognized adapter section: a text
\* without a sample block gives no row; a block gives no row at all exactly
\* when it has no recognized section; and every block gives the rows it
\* gives when parsed alone.
C9_RowsOnlyForBlocksWithSections ==
    /\ (Returned /\ sample_blocks = <<>>) => rows = <<>>
    /\ Splitted =>
        \A i \in 1..Len(emitted) :
            /\ (Group(i) = <<>>) <=> (FindAdapters(sample_blocks[i]) = <<>>)
            /\ Group(i) = ParseRows(sample_blocks[i])

\* A block with a sample token and no section, beside a block with rows.
C9_Witness ==
    /\ Returned
    /\ \E i, j \in 1..Len(emitted) :
        /\ emitted[i] = 0
        /\ SampleNameSearch(sample_blocks[i]) # ""
        /\ emitted[j] > 0

====
